---- MODULE Spec2Model ----
(***************************************************************************)
(* Vendor tagging of worksheets: the match_vendor function of              *)
(* dcvt/match.py and the "Run & Download" handler of                       *)
(* data_combiner_vendor_tagger.py.                                         *)
(*                                                                         *)
(* Strings are sequences of one-character strings.  Similarity scores are  *)
(* exact rationals [n, d] (n/d on the 0..100 scale), compared by cross     *)
(* multiplication, so that ">= threshold" is decided exactly.              *)
(***************************************************************************)
EXTENDS Integers, Sequences, FiniteSets, TLC

(* ---------------------------------------------------------------- bounds *)

\* longest string (sheet title, vendor name, oracle reply) of the model
MaxLen == 2
\* longest master list handed to match_vendor
MaxMaster == 2
\* longest vendor name in the uploaded vendor file
MaxVendorLen == 1
\* most data cells in the uploaded vendor file
MaxCells == 2
\* most uploaded data files
MaxFiles == 2

Alphabet == {" ", "a"}

\* Unicode code points, for Python's ordering of str
Ord(c) == CASE c = " " -> 32 [] c = "a" -> 97 [] c = "b" -> 98

Strings == UNION {[1..n -> Alphabet] : n \in 0..MaxLen}

\* the slider values the model tries (0..100 scale)
Thresholds == {0, 34, 50, 67, 80, 100}

(* ------------------------------------------------------- Python builtins *)

Min2(x, y) == IF x <= y THEN x ELSE y
Max2(x, y) == IF x >= y THEN x ELSE y

\* s[lo:hi] of Python, 0-based, hi exclusive
Slice(s, lo, hi) == SubSeq(s, lo + 1, hi)

CharSet(s) == {s[i] : i \in 1..Len(s)}

\* Python's s1 < s2 on str: lexicographic by code point
RECURSIVE StrLess(_, _)
StrLess(s, t) ==
    IF t = <<>> THEN FALSE
    ELSE IF s = <<>> THEN TRUE
    ELSE IF Ord(Head(s)) # Ord(Head(t)) THEN Ord(Head(s)) < Ord(Head(t))
    ELSE StrLess(Tail(s), Tail(t))

\* str.strip(): leading and trailing whitespace removed
RECURSIVE LStrip(_)
LStrip(s) == IF s # <<>> /\ Head(s) = " " THEN LStrip(Tail(s)) ELSE s
RECURSIVE RStrip(_)
RStrip(s) ==
    IF s # <<>> /\ s[Len(s)] = " " THEN RStrip(SubSeq(s, 1, Len(s) - 1)) ELSE s
Strip(s) == RStrip(LStrip(s))

\* x in list
InList(x, list) == \E i \in 1..Len(list) : list[i] = x

(* --------------------------------------------------------------- scores *)

Score(n, d) == [n |-> n, d |-> d]
ScoreZero == Score(0, 1)
ScoreGT(x, y) == x.n * y.d > y.n * x.d
ScoreEQ(x, y) == x.n * y.d = y.n * x.d
\* score >= t for an integer t
ScoreGE(x, t) == x.n >= t * x.d

(* -------------------------------------------- rapidfuzz: fuzz.partial_ratio *)

\* length of the longest common subsequence
RECURSIVE LCS(_, _)
LCS(s, t) ==
    IF s = <<>> \/ t = <<>> THEN 0
    ELSE IF Head(s) = Head(t) THEN 1 + LCS(Tail(s), Tail(t))
    ELSE Max2(LCS(Tail(s), t), LCS(s, Tail(t)))

\* fuzz.ratio: the normalized Indel similarity, 100 * 2 * lcs / (len1 + len2)
ratio(s1, s2) ==
    IF Len(s1) + Len(s2) = 0 THEN Score(100, 1)
    ELSE Score(200 * LCS(s1, s2), Len(s1) + Len(s2))

\* the greatest score of a finite set of scores, 0 for the empty set
BestOf(S) ==
    IF S = {} THEN ScoreZero
    ELSE CHOOSE x \in S : \A y \in S : ~ScoreGT(y, x)

\* _partial_ratio_impl(s1, s2), len(s1) <= len(s2): the best ratio of s1 against
\* the prefixes of s2 shorter than s1, the windows of s2 as long as s1 and the
\* suffixes of s2 no longer than s1; a window is tried only when its border
\* character occurs in s1 (never, for the empty s1)
partial_ratio_impl(s1, s2) ==
    LET len1 == Len(s1)
        len2 == Len(s2)
        cs   == CharSet(s1)
        pre  == {ratio(s1, Slice(s2, 0, i)) :
                    i \in {k \in 1..(len1 - 1) : s2[k] \in cs}}
        mid  == {ratio(s1, Slice(s2, i, i + len1)) :
                    i \in {k \in 0..(len2 - len1 - 1) : len1 > 0 /\ s2[k + len1] \in cs}}
        suf  == {ratio(s1, Slice(s2, i, len2)) :
                    i \in {k \in (len2 - len1)..(len2 - 1) : s2[k + 1] \in cs}}
    IN  BestOf(pre \cup mid \cup suf)

partial_ratio(s1, s2) ==
    IF s1 = <<>> /\ s2 = <<>> THEN Score(100, 1)
    ELSE LET shorter == IF Len(s1) <= Len(s2) THEN s1 ELSE s2
             longer  == IF Len(s1) <= Len(s2) THEN s2 ELSE s1
             res     == partial_ratio_impl(shorter, longer)
         IN  IF ~ScoreEQ(res, Score(100, 1)) /\ Len(s1) = Len(s2)
             THEN LET res2 == partial_ratio_impl(longer, shorter)
                  IN  IF ScoreGT(res2, res) THEN res2 ELSE res
             ELSE res

\* fuzz.partial_ratio on the strings of the model, evaluated once
RECURSIVE partial_ratio_row(_, _)
partial_ratio_row(s1, S) ==
    IF S = {} THEN <<>>
    ELSE LET s2 == CHOOSE x \in S : TRUE
         IN  (s2 :> partial_ratio(s1, s2)) @@ partial_ratio_row(s1, S \ {s2})
RECURSIVE partial_ratio_rows(_)
partial_ratio_rows(S) ==
    IF S = {} THEN <<>>
    ELSE LET s1 == CHOOSE x \in S : TRUE
         IN  (s1 :> partial_ratio_row(s1, Strings)) @@ partial_ratio_rows(S \ {s1})
partial_ratio_table == partial_ratio_rows(Strings)

\* the scorer handed to process.extractOne: scorer=fuzz.partial_ratio
scorer(query, choice) == partial_ratio_table[query][choice]

(* ------------------------------------------- rapidfuzz: process.extractOne *)

\* The scan of process.extractOne: a choice replaces the best one so far only
\* with a strictly greater score, so the first of several equal scores stays.
\* best is <<>> (nothing yet) or <<choice, score>>.
RECURSIVE extractOneScan(_, _, _, _)
extractOneScan(query, choices, i, best) ==
    IF i > Len(choices) THEN best
    ELSE LET score == scorer(query, choices[i])
         IN  IF best = <<>> \/ ScoreGT(score, best[2])
             THEN extractOneScan(query, choices, i + 1, <<choices[i], score>>)
             ELSE extractOneScan(query, choices, i + 1, best)

\* extractOne with ">=" for ">": the last of several equal scores wins
RECURSIVE extractOneScanLast(_, _, _, _)
extractOneScanLast(query, choices, i, best) ==
    IF i > Len(choices) THEN best
    ELSE LET score == scorer(query, choices[i])
         IN  IF best = <<>> \/ ~ScoreGT(best[2], score)
             THEN extractOneScanLast(query, choices, i + 1, <<choices[i], score>>)
             ELSE extractOneScanLast(query, choices, i + 1, best)
extractOne_last(query, choices) == extractOneScanLast(query, choices, 1, <<>>)

\* process.extractOne(query, choices, scorer=fuzz.partial_ratio): <<>> is None
extractOne(query, choices) == extractOneScan(query, choices, 1, <<>>)

(* ------------------------------------------ difflib: get_close_matches *)

\* do a[i:i+k] and b[j:j+k] agree (0-based starts)
SameBlock(a, b, i, j, k) == \A d \in 1..k : a[i + d] = b[j + d]

\* SequenceMatcher.find_longest_match over the whole of a and b (no junk: the
\* automatic junk heuristic needs 200 elements): the longest common block, the
\* one starting earliest in a, and of those the one starting earliest in b
find_longest_match(a, b) ==
    LET Blocks == {t \in (0..Len(a)) \X (0..Len(b)) \X (0..Min2(Len(a), Len(b))) :
                      /\ t[1] + t[3] <= Len(a)
                      /\ t[2] + t[3] <= Len(b)
                      /\ SameBlock(a, b, t[1], t[2], t[3])}
        size   == CHOOSE k \in {t[3] : t \in Blocks} :
                      \A t \in Blocks : t[3] <= k
        besti  == CHOOSE i \in {t[1] : t \in {u \in Blocks : u[3] = size}} :
                      \A t \in Blocks : t[3] = size => i <= t[1]
        bestj  == CHOOSE j \in {t[2] : t \in {u \in Blocks : u[3] = size /\ u[1] = besti}} :
                      \A t \in Blocks : (t[3] = size /\ t[1] = besti) => j <= t[2]
    IN  IF size = 0 THEN <<0, 0, 0>> ELSE <<besti, bestj, size>>

\* the total size of SequenceMatcher.get_matching_blocks: the longest block,
\* then the same to its left and to its right
RECURSIVE matches(_, _)
matches(a, b) ==
    IF a = <<>> \/ b = <<>> THEN 0
    ELSE LET m == find_longest_match(a, b)
             i == m[1]
             j == m[2]
             k == m[3]
         IN  IF k = 0 THEN 0
             ELSE k + matches(Slice(a, 0, i), Slice(b, 0, j))
                    + matches(Slice(a, i + k, Len(a)), Slice(b, j + k, Len(b)))

\* occurrences of c in s
Count(s, c) == Cardinality({i \in 1..Len(s) : s[i] = c})

RECURSIVE SumOver(_, _, _)
SumOver(S, a, b) ==
    IF S = {} THEN 0
    ELSE LET c == CHOOSE x \in S : TRUE
         IN  Min2(Count(a, c), Count(b, c)) + SumOver(S \ {c}, a, b)

\* SequenceMatcher ratios as scores on the 0..100 scale: 100 * 2 * M / T
\* (_calculate_ratio returns 1.0 when T = 0)
calculate_ratio(m, length) ==
    IF length = 0 THEN Score(100, 1) ELSE Score(200 * m, length)
seq_ratio(a, b) == calculate_ratio(matches(a, b), Len(a) + Len(b))
quick_ratio(a, b) ==
    calculate_ratio(SumOver(CharSet(a) \cup CharSet(b), a, b), Len(a) + Len(b))
real_quick_ratio(a, b) ==
    calculate_ratio(Min2(Len(a), Len(b)), Len(a) + Len(b))

\* SequenceMatcher(seq1 = a, seq2 = b): its three ratios on the strings of the
\* model, evaluated once
RECURSIVE SequenceMatcher_row(_, _)
SequenceMatcher_row(a, S) ==
    IF S = {} THEN <<>>
    ELSE LET b == CHOOSE x \in S : TRUE
         IN  (b :> [real_quick_ratio |-> real_quick_ratio(a, b),
                    quick_ratio      |-> quick_ratio(a, b),
                    ratio            |-> seq_ratio(a, b)]) @@ SequenceMatcher_row(a, S \ {b})
RECURSIVE SequenceMatcher_rows(_)
SequenceMatcher_rows(S) ==
    IF S = {} THEN <<>>
    ELSE LET a == CHOOSE x \in S : TRUE
         IN  (a :> SequenceMatcher_row(a, Strings)) @@ SequenceMatcher_rows(S \ {a})
SequenceMatcher == SequenceMatcher_rows(Strings)

\* (score1, x1) < (score2, x2) as Python orders tuples
PairLess(p, q) ==
    \/ ScoreGT(q[1], p[1])
    \/ ScoreEQ(q[1], p[1]) /\ StrLess(p[2], q[2])

\* get_close_matches(word, possibilities, n=1, cutoff): the possibilities whose
\* three ratios reach the cutoff, the greatest (ratio, x) pair first; the cutoff
\* is given on the 0..100 scale (cutoff * 100)
get_close_matches(word, possibilities, cutoff100) ==
    LET s(x) == SequenceMatcher[x][word]
        result == {<<s(possibilities[i]).ratio, possibilities[i]>> :
                      i \in {k \in 1..Len(possibilities) :
                                /\ ScoreGE(s(possibilities[k]).real_quick_ratio, cutoff100)
                                /\ ScoreGE(s(possibilities[k]).quick_ratio, cutoff100)
                                /\ ScoreGE(s(possibilities[k]).ratio, cutoff100)}}
    IN  IF result = {} THEN <<>>
        ELSE <<(CHOOSE p \in result : \A q \in result : ~PairLess(p, q))[2]>>

(* ------------------------------------------------------------ the state *)

VARIABLES
    RAPIDFUZZ,       \* the rapidfuzz import succeeded (_RAPIDFUZZ; process and fuzz)
    master,          \* the vendor master list
    threshold,       \* the fuzzy threshold, 0..100
    pc,              \* the position of the program
    \* a call of match_vendor
    name,            \* its argument name
    use_rapidfuzz,   \* its argument use_rapidfuzz: "None", "True" or "False"
    result,          \* what it returned
    \* the application
    gpt_api_key,     \* a key was typed into the sidebar
    OpenAI,          \* the openai import succeeded
    gpt_available,   \* bool(gpt_api_key and OpenAI)
    uploaded_files,  \* how many data files are uploaded
    vendor_file,     \* a vendor master file is uploaded
    df_vendors,      \* the frame read from it, while the run reads it
    step,            \* the progress counter of the run
    title,           \* ws.title of the worksheet at hand
    vendor,          \* the vendor found for it
    \* what happened for the worksheet at hand
    scored,          \* process.extractOne ran for it
    oracle_calls,    \* how often the chat completion was requested for it
    reply            \* what the last request came back with

matchVars == <<name, use_rapidfuzz, result>>
configVars == <<gpt_api_key, OpenAI, gpt_available, uploaded_files, vendor_file>>
sheetVars == <<step, title, vendor, scored, oracle_calls, reply>>
appVars == <<configVars, df_vendors, sheetVars>>
vars == <<RAPIDFUZZ, master, threshold, pc, matchVars, appVars>>

(* ------------------------------------------------ dcvt/match.py: match_vendor *)

\* lists of at most n strings
Lists(n) == UNION {[1..k -> Strings] : k \in 0..n}

\* cutoff = max(0.0, min(1.0, threshold / 100.0)), times 100
cutoff100(t) == Max2(0, Min2(100, t))

\* the RapidFuzz path with the comparison turned round: match[1] <= threshold
rapidfuzz_path_le(nm, master_list, t) ==
    LET match == extractOne(nm, master_list)
    IN  IF match # <<>> /\ ~ScoreGE(match[2], t + 1) THEN match[1] ELSE <<>>

\* the RapidFuzz path of match_vendor
rapidfuzz_path(nm, master_list, t) ==
    LET match == extractOne(nm, master_list)
    IN  IF match # <<>> /\ ScoreGE(match[2], t) THEN match[1] ELSE <<>>

\* the difflib fallback of match_vendor
difflib_path(nm, master_list, t) ==
    LET found == get_close_matches(nm, master_list, cutoff100(t))
    IN  IF found # <<>> THEN found[1] ELSE <<>>

\* does this call take the RapidFuzz path
takes_rapidfuzz(use, lib) == (IF use = "None" THEN lib ELSE use = "True") /\ lib

\* match_vendor without its first check (if not name or not master_list)
match_vendor_unguarded(nm, master_list, t, use, lib) ==
    IF takes_rapidfuzz(use, lib) THEN rapidfuzz_path(nm, master_list, t)
    ELSE difflib_path(nm, master_list, t)

match_vendor(nm, master_list, t, use, lib) ==
    IF nm = <<>> \/ master_list = <<>> THEN <<>>
    ELSE IF takes_rapidfuzz(use, lib) THEN rapidfuzz_path(nm, master_list, t)
    ELSE difflib_path(nm, master_list, t)

NoFrame == [ncols |-> 0, column |-> <<>>]
NoReply == [ok |-> TRUE, content |-> <<>>]

\* the application does not run
AppIdle ==
    /\ gpt_api_key = FALSE
    /\ OpenAI = FALSE
    /\ gpt_available = FALSE
    /\ uploaded_files = 0
    /\ vendor_file = FALSE
    /\ df_vendors = NoFrame
    /\ step = 0
    /\ title = <<>>
    /\ vendor = <<>>
    /\ scored = FALSE
    /\ oracle_calls = 0
    /\ reply = NoReply

MatchInit ==
    /\ RAPIDFUZZ \in BOOLEAN
    /\ master \in Lists(MaxMaster)
    /\ threshold \in Thresholds
    /\ pc = "call"
    /\ name = <<>>
    /\ use_rapidfuzz = "None"
    /\ result = <<>>
    /\ AppIdle

\* one call match_vendor(name, master, threshold, use_rapidfuzz)
CallMatchVendor ==
    /\ pc = "call"
    /\ \E nm \in Strings, use \in {"None", "True", "False"} :
          /\ name' = nm
          /\ use_rapidfuzz' = use
          /\ result' = match_vendor(nm, master, threshold, use, RAPIDFUZZ)
    /\ pc' = "returned"
    /\ UNCHANGED <<RAPIDFUZZ, master, threshold, appVars>>

MatchNext == CallMatchVendor

MatchSpec == MatchInit /\ [][MatchNext]_vars

(* ------------------------- data_combiner_vendor_tagger.py: Run & Download *)

\* a missing cell, as pandas reads it
NaN == <<"NaN">>

\* the cells a vendor file can hold: a non-empty string, or nothing
Cells == {c \in Strings : c # <<>> /\ Len(c) <= MaxVendorLen} \cup {NaN}

\* what pd.read_excel can read from a vendor file: one column of cells under
\* its header, or more columns
Frames ==
    {[ncols |-> 2, column |-> <<>>]}
    \cup {[ncols |-> 1, column |-> col] :
             col \in UNION {[1..k -> Cells] : k \in 0..MaxCells}}

\* Series.dropna()
RECURSIVE dropna(_)
dropna(col) ==
    IF col = <<>> THEN <<>>
    ELSE IF Head(col) = NaN THEN dropna(Tail(col))
    ELSE <<Head(col)>> \o dropna(Tail(col))

\* Series.unique(): the values in the order of their first appearance
RECURSIVE uniqueScan(_, _)
uniqueScan(col, seen) ==
    IF col = <<>> THEN seen
    ELSE IF InList(Head(col), seen) THEN uniqueScan(Tail(col), seen)
    ELSE uniqueScan(Tail(col), Append(seen, Head(col)))
unique(col) == uniqueScan(col, <<>>)

\* master = df_vendors.iloc[:, 0].dropna().unique().tolist()
load_master(col) == unique(dropna(col))

\* the fuzzy matching of a worksheet title
fuzzy_match(ws_title, master_list, t, lib) ==
    IF lib
    THEN LET m == extractOne(ws_title, master_list)
         IN  IF m # <<>> /\ ScoreGE(m[2], t) THEN m[1] ELSE <<>>
    ELSE <<>>

\* what the chat completion can come back with: a text, or a failure (an
\* exception of the client, no choices, no content)
Replies ==
    {[ok |-> TRUE, content |-> c] : c \in Strings}
    \cup {[ok |-> FALSE, content |-> <<>>]}

\* gpt_match without "if choice in master": the reply is returned as it is
gpt_match_unchecked(r, master_list) ==
    IF ~r.ok THEN [raised |-> FALSE, value |-> <<>>]
    ELSE [raised |-> FALSE, value |-> Strip(r.content)]

\* gpt_match without its try/except: a failed request raises
gpt_match_raises(r, master_list) ==
    IF ~r.ok THEN [raised |-> TRUE, value |-> <<>>]
    ELSE LET choice == Strip(r.content)
         IN  [raised |-> FALSE,
              value  |-> IF InList(choice, master_list) THEN choice ELSE <<>>]

\* gpt_match(name), given what the request comes back with: raised says that
\* an exception leaves the function
gpt_match(r, master_list) ==
    IF ~r.ok THEN [raised |-> FALSE, value |-> <<>>]
    ELSE LET choice == Strip(r.content)
         IN  [raised |-> FALSE,
              value  |-> IF InList(choice, master_list) THEN choice ELSE <<>>]

Init ==
    /\ RAPIDFUZZ \in BOOLEAN
    /\ gpt_api_key \in BOOLEAN
    /\ OpenAI \in BOOLEAN
    /\ gpt_available = (gpt_api_key /\ OpenAI)
    /\ threshold \in Thresholds
    /\ uploaded_files \in 0..MaxFiles
    /\ vendor_file \in BOOLEAN
    /\ df_vendors = NoFrame
    /\ master = <<>>
    /\ pc = "button"
    /\ step = 0
    /\ title = <<>>
    /\ vendor = <<>>
    /\ scored = FALSE
    /\ oracle_calls = 0
    /\ reply = NoReply
    /\ name = <<>>
    /\ use_rapidfuzz = "None"
    /\ result = <<>>

\* the button is pressed: the uploads are validated
Run ==
    /\ pc = "button"
    /\ pc' = IF uploaded_files = 0 \/ ~vendor_file THEN "stopped" ELSE "load"
    /\ UNCHANGED <<RAPIDFUZZ, master, threshold, matchVars, appVars>>

\* the vendor master list is read
LoadMaster ==
    /\ pc = "load"
    /\ \E df \in Frames :
          /\ df_vendors' = df
          /\ IF df.ncols # 1
             THEN pc' = "stopped" /\ UNCHANGED master
             ELSE pc' = "ingest" /\ master' = load_master(df.column)
    /\ UNCHANGED <<RAPIDFUZZ, threshold, matchVars, configVars, sheetVars>>

\* an uploaded file cannot be read: the exception reaches the handler's except
ReadFails ==
    /\ pc \in {"load", "ingest"}
    /\ pc' = "error"
    /\ UNCHANGED <<RAPIDFUZZ, master, threshold, matchVars, appVars>>

\* one data file becomes a sheet with an empty Vendor column (df_vendors is
\* not read from here on: the model forgets it)
Ingest ==
    /\ pc = "ingest"
    /\ step' = step + 1
    /\ pc' = IF step' = uploaded_files THEN "sheets" ELSE "ingest"
    /\ df_vendors' = NoFrame
    /\ UNCHANGED <<RAPIDFUZZ, master, threshold, matchVars, configVars,
                   title, vendor, scored, oracle_calls, reply>>

\* the next worksheet: styled, and skipped when it has no data row
NextSheet ==
    /\ pc = "sheets"
    /\ step < 2 * uploaded_files
    /\ step' = step + 1
    /\ \/ \* max_row < 2: continue
          /\ pc' = "sheets"
          /\ UNCHANGED title
       \/ \E t \in Strings :
             /\ title' = t
             /\ pc' = "fuzzy"
    /\ UNCHANGED <<RAPIDFUZZ, master, threshold, matchVars, configVars, df_vendors,
                   vendor, scored, oracle_calls, reply>>

\* fuzzy matching of the title
FuzzyMatch ==
    /\ pc = "fuzzy"
    /\ vendor' = fuzzy_match(title, master, threshold, RAPIDFUZZ)
    /\ scored' = RAPIDFUZZ
    /\ pc' = "fallback"
    /\ UNCHANGED <<RAPIDFUZZ, master, threshold, matchVars, configVars,
                   df_vendors, step, title, oracle_calls, reply>>

\* GPT fallback: if not vendor and gpt_available
GptFallback ==
    /\ pc = "fallback"
    /\ vendor = <<>> /\ gpt_available
    /\ \E r \in Replies :
          LET out == gpt_match(r, master)
          IN  /\ reply' = r
              /\ IF out.raised
                 THEN pc' = "error" /\ UNCHANGED vendor
                 ELSE pc' = "write" /\ vendor' = out.value
    /\ oracle_calls' = oracle_calls + 1
    /\ UNCHANGED <<RAPIDFUZZ, master, threshold, matchVars, configVars,
                   df_vendors, step, title, scored>>

\* no GPT fallback
NoFallback ==
    /\ pc = "fallback"
    /\ ~(vendor = <<>> /\ gpt_available)
    /\ pc' = "write"
    /\ UNCHANGED <<RAPIDFUZZ, master, threshold, matchVars, appVars>>

\* the vendor goes into every row of the sheet's Vendor column; the iteration
\* ends, and with it what it held
WriteVendor ==
    /\ pc = "write"
    /\ pc' = "sheets"
    /\ title' = <<>>
    /\ vendor' = <<>>
    /\ scored' = FALSE
    /\ oracle_calls' = 0
    /\ reply' = NoReply
    /\ UNCHANGED <<RAPIDFUZZ, master, threshold, matchVars, configVars, df_vendors, step>>

\* the workbook is saved and offered for download
Save ==
    /\ pc = "sheets"
    /\ step = 2 * uploaded_files
    /\ pc' = "done"
    /\ UNCHANGED <<RAPIDFUZZ, master, threshold, matchVars, appVars>>

Next ==
    \/ Run
    \/ LoadMaster
    \/ ReadFails
    \/ Ingest
    \/ NextSheet
    \/ FuzzyMatch
    \/ GptFallback
    \/ NoFallback
    \/ WriteVendor
    \/ Save

Spec == Init /\ [][Next]_vars

(* ------------------------------------------------------------ properties *)

UseValues == {"None", "True", "False"}
ValidTag(tag, master_list) == tag = <<>> \/ InList(tag, master_list)
OracleAsked == pc = "write" /\ oracle_calls > 0

\* every master entry match_vendor can return for the title at hand
MatchVendorTagsValid ==
    \A use \in UseValues, lib \in BOOLEAN :
        ValidTag(match_vendor(title, master, threshold, use, lib), master)

C2_OracleFailureIsNoMatch ==
    /\ (OracleAsked /\ ~reply.ok) => vendor = <<>>
    /\ ~(pc = "error" /\ ~reply.ok)
    /\ oracle_calls <= 1
    /\ pc \in {"fuzzy", "fallback", "write", "sheets"} => ENABLED Next
    /\ pc = "done" => step = 2 * uploaded_files

C2_Witness ==
    /\ OracleAsked
    /\ ~reply.ok
    /\ oracle_calls = 1
    /\ step < 2 * uploaded_files

\* C3: the oracle is asked for a worksheet only after the scorer ran for it and
\* accepted nothing, and only with a key; with a candidate accepted it is not
\* asked; without a key it is not asked and the tag is the scorer's alone
C3_OracleOnlyAfterScorer ==
    /\ oracle_calls > 0 =>
          /\ scored
          /\ fuzzy_match(title, master, threshold, RAPIDFUZZ) = <<>>
          /\ gpt_api_key
    /\ (pc = "write" /\ fuzzy_match(title, master, threshold, RAPIDFUZZ) # <<>>) =>
          oracle_calls = 0
    /\ (pc = "write" /\ ~gpt_api_key) =>
          /\ oracle_calls = 0
          /\ vendor = fuzzy_match(title, master, threshold, RAPIDFUZZ)

\* C4: with threshold 0, a deduplicated master list without empty entries and
\* one of its entries as the name, match_vendor returns that entry
NoDuplicates(list) == \A i, j \in 1..Len(list) : list[i] = list[j] => i = j
C4_TrivialAcceptance ==
    (/\ pc = "returned"
     /\ threshold = 0
     /\ NoDuplicates(master)
     /\ ~InList(<<>>, master)
     /\ InList(name, master)) => result = name

\* C5: a call that matches at its threshold matches at every lower threshold,
\* on the same path
C5_ThresholdMonotone ==
    (pc = "returned" /\ result # <<>>) =>
        \A t2 \in Thresholds :
            t2 < threshold =>
                match_vendor(name, master, t2, use_rapidfuzz, RAPIDFUZZ) # <<>>

C5_Witness ==
    /\ pc = "returned"
    /\ result # <<>>
    /\ threshold = 67
    /\ name # result
    /\ takes_rapidfuzz(use_rapidfuzz, RAPIDFUZZ)

\* C6: match_vendor returns the empty string for an empty master list and for
\* an empty name, at every threshold and on both paths
C6_EmptyInputsGiveEmpty ==
    (pc = "returned" /\ (name = <<>> \/ master = <<>>)) => result = <<>>

C6_Witness ==
    /\ pc = "returned"
    /\ name = <<>>
    /\ master # <<>>
    /\ master[1] # <<>>
    /\ threshold = 0
    /\ takes_rapidfuzz(use_rapidfuzz, RAPIDFUZZ)
    /\ result = <<>>

\* the first index of master with the greatest partial_ratio against name
BestIndex ==
    CHOOSE i \in 1..Len(master) :
        /\ \A j \in 1..Len(master) :
              ~ScoreGT(partial_ratio(name, master[j]), partial_ratio(name, master[i]))
        /\ \A j \in 1..(i - 1) :
              ScoreGT(partial_ratio(name, master[i]), partial_ratio(name, master[j]))

\* C7: on the RapidFuzz path, with a name and a master list, the result is the
\* first entry with the greatest score when that score reaches the threshold,
\* and the empty string otherwise
C7_BestCandidateOrNone ==
    (/\ pc = "returned"
     /\ takes_rapidfuzz(use_rapidfuzz, RAPIDFUZZ)
     /\ name # <<>>
     /\ master # <<>>) =>
        result = IF ScoreGE(partial_ratio(name, master[BestIndex]), threshold)
                 THEN master[BestIndex]
                 ELSE <<>>

C7_Witness ==
    /\ pc = "returned"
    /\ takes_rapidfuzz(use_rapidfuzz, RAPIDFUZZ)
    /\ Len(master) = 2
    /\ master[1] # master[2]
    /\ ScoreEQ(partial_ratio(name, master[1]), partial_ratio(name, master[2]))
    /\ threshold = 50
    /\ result = master[1]

\* C8: without rapidfuzz every matcher runs the close-match algorithm with
\* cutoff threshold/100 and takes what it returns: match_vendor, and the fuzzy
\* matching of a worksheet title
C8_DegradedEverywhere ==
    (~RAPIDFUZZ /\ pc = "fallback" /\ title # <<>> /\ master # <<>>) =>
        /\ match_vendor(title, master, threshold, "None", RAPIDFUZZ)
              = difflib_path(title, master, threshold)
        /\ vendor = difflib_path(title, master, threshold)

\* the place of the first cell of col equal to x
FirstSeen(x, col) == CHOOSE i \in 1..Len(col) : col[i] = x /\ \A j \in 1..(i - 1) : col[j] # x

\* C9: the master list has no two equal entries and no empty or blank entry,
\* and holds the other cells of the column in the order they are first seen
C9_ReferenceList ==
    pc \in {"ingest", "sheets", "fuzzy", "fallback", "write", "done"} =>
        /\ NoDuplicates(master)
        /\ \A i \in 1..Len(master) : Strip(master[i]) # <<>>
        /\ (pc = "ingest" /\ step = 0) =>
              LET col == df_vendors.column
              IN  /\ \A i \in 1..Len(col) :
                        (col[i] # NaN /\ Strip(col[i]) # <<>>) => InList(col[i], master)
                  /\ \A i \in 1..Len(master) : InList(master[i], col)
                  /\ \A i, j \in 1..Len(master) :
                        i < j => FirstSeen(master[i], col) < FirstSeen(master[j], col)

\* C9, its last part: once read, the master list is not changed
C9_MasterNotModified ==
    [][(pc \in {"ingest", "sheets", "fuzzy", "fallback", "write"}) => (master' = master)]_vars

====
